---------------------------- MODULE Spec2Model ----------------------------
(***************************************************************************)
(* Market Pulse: the batch ingestion routine (phase1_ingestion.py) and the *)
(* Query Service (api.py), modelled as state machines.                     *)
(*                                                                         *)
(* IngestSpec  : runs of ingest_stock_prices against the object store.     *)
(* QuerySpec   : requests to the HTTP endpoints against the analytic store.*)
(***************************************************************************)
EXTENDS Integers, Sequences, FiniteSets, TLC

(***************************************************************************)
(* Bounds of the model.                                                    *)
(***************************************************************************)
\* size of the ticker universe used in a run (the source lists 30 symbols)
NumTickers == 2
\* number of ingestion runs observed
MaxRuns == 2

\* longest identifier a caller sends in a path segment
MaxStrLen == 2
\* most rows the analytic store holds, all tables together
MaxRows == 2

None == "None"
NoSummary == <<>>
NULL == "NULL"

(***************************************************************************)
(* phase1_ingestion.py: configuration                                      *)
(***************************************************************************)
S3_STOCK_PREFIX == "stock_prices/"

\* the first members of TICKERS in sorted() order
TickerPool == <<"AAPL", "ABBV", "AMZN", "BA">>

TICKERS == {TickerPool[n] : n \in 1..NumTickers}

\* sorted(TICKERS): the pool is listed in ascending order
SortedTickers == [n \in 1..NumTickers |-> TickerPool[n]]

\* what yf.download can do for one ticker
ProviderOutcomes == {"rows", "empty", "exception"}
\* what s3_client.put_object can do for one object
SinkOutcomes == {"ok", "exception"}

VARIABLES
    \* ---- ingestion ----
    pc,             \* "idle" | "loop" | "done" | "raised"
    run,            \* number of the current run (0 before the first)
    idx,            \* position of the loop in sorted(TICKERS)
    success_count,  \* local of ingest_stock_prices
    now,            \* the UTC clock, in ticks
    bucket,         \* S3 bucket: object key -> run that wrote the object
    overwritten,    \* whether a put has replaced an object staged earlier
    provider,       \* this run: ticker -> outcome of yf.download
    sink,           \* this run: ticker -> outcome of put_object
    fetches,        \* this run: ticker -> number of fetch_ohlcv calls
    puts,           \* this run: ticker -> number of put_object calls
    summary,        \* the final log line: <<success_count, len(TICKERS)>>
    window,         \* start_date and end_date, locals of ingest_stock_prices
    \* ---- query service ----
    store,          \* the analytic store: its three mart tables
    req,            \* the request being answered, None between requests
    resp            \* the response to req

ingestVars == <<pc, run, idx, success_count, now, bucket, overwritten,
                provider, sink, fetches, puts, summary, window>>

queryVars == <<store, req, resp>>

\* the Query Service as concurrent requests, each at a line of run_query:
\* the connections it has opened, the requests in progress, the number of
\* requests that have arrived
VARIABLES conns, workers, arrived

connVars == <<conns, workers, arrived>>

\* what a caller of the Query Service has seen so far: per mart table, the
\* trade date of the rows the last answered top-movers request carried
VARIABLES seen

callerVars == <<seen>>

\* ingest_fundamentals
VARIABLES
    fpc,            \* "idle" | "loop" | "done" | "raised"
    frun,           \* number of the current run (0 before the first)
    fidx,           \* position of the loop in sorted(TICKERS)
    frows,          \* rows, local of ingest_fundamentals: the tickers with a row
    finfo,          \* this run: ticker -> outcome of yf.Ticker(ticker).info
    fsink,          \* this run: outcome of put_object
    fputs,          \* this run: number of put_object calls
    fbucket,        \* the objects under fundamentals/: key -> run and rows
    flog            \* this run: the last line logged after the loop

fundVars == <<fpc, frun, fidx, frows, finfo, fsink, fputs, fbucket, flog>>

\* market_pulse_daily_pipeline
VARIABLES
    ti,             \* task instance states of the current DAG run
    tries,          \* task -> number of attempts in the current DAG run
    dag_run         \* number of the current DAG run

dagVars == <<ti, tries, dag_run>>

vars == <<ingestVars, queryVars, connVars, callerVars, fundVars, dagVars>>

\* what the steps of one component leave as it is: the other components
ingestFrame == <<queryVars, connVars, callerVars, fundVars, dagVars>>
queryFrame == <<ingestVars, connVars, callerVars, fundVars, dagVars>>
connFrame == <<ingestVars, queryVars, callerVars, fundVars, dagVars>>
dagFrame == <<ingestVars, queryVars, connVars, callerVars, fundVars>>
\* ingest_fundamentals reads the clock and nothing else of the other routine
fundFrame == <<pc, run, idx, success_count, bucket, overwritten,
               provider, sink, fetches, puts, summary, window,
               queryVars, connVars, callerVars, dagVars>>

(***************************************************************************)
(* fetch_ohlcv: the provider call inside try/except.  Returns "df" (a      *)
(* frame with rows) or None; an exception of the provider is caught.       *)
(***************************************************************************)
fetch_ohlcv_propagates(p) ==
    CASE p = "exception" -> "raise"
      [] p = "empty"     -> None
      [] OTHER           -> "df"

fetch_ohlcv(p) ==
    CASE p = "exception" -> None
      [] p = "empty"     -> None
      [] OTHER           -> "df"

(***************************************************************************)
(* upload_dataframe_to_s3: put_object inside try/except, True / False.     *)
(***************************************************************************)
upload_dataframe_to_s3_propagates(s) ==
    CASE s = "ok" -> "True"
      [] OTHER    -> "raise"

upload_dataframe_to_s3(s) ==
    CASE s = "ok" -> "True"
      [] OTHER    -> "False"

\* The clock is read in ticks of half a second; the "%S" of the timestamp
\* format is the finest field it keeps.
TicksPerSecond == 2

\* clock ticks that can pass during one provider call or between two runs
Elapsed == {0, 1}

\* datetime.utcnow().strftime("%Y%m%d_%H%M%S"): the clock cut to whole seconds
strftime(t) == t \div TicksPerSecond

\* datetime.today().strftime("%Y-%m-%d"): the clock cut to whole days
SecondsPerDay == 86400
today(t) == strftime(t) \div SecondsPerDay

\* the daily run of __main__: ingest_stock_prices(s3, days_back=1)
DailyDaysBack == 1

\* the days_back a caller of ingest_stock_prices can pass: int, unchecked
DaysBack == {-1, 0, DailyDaysBack, 365}

\* lines 127-128: end_date is today, start_date is days_back days before
\* it; days_back is used as it is passed
lookback(t, days_back) ==
    [start_date |-> today(t) - days_back, end_date |-> today(t)]

\* outside a call the locals do not exist
NoWindow == [start_date |-> 0, end_date |-> 0]

\* f"{S3_STOCK_PREFIX}{ticker}_{timestamp}.csv"
s3_key(ticker, timestamp) ==
    [prefix |-> S3_STOCK_PREFIX, ticker |-> ticker, timestamp |-> timestamp]

\* put_object on a bucket: creates the object or replaces it
put_object(b, key, body) ==
    [k \in DOMAIN b \cup {key} |-> IF k = key THEN body ELSE b[k]]

\* success_count += 1 only when the upload reported True
count_upload_always(count, uploaded) == count + 1

count_upload(count, uploaded) ==
    IF uploaded = "True" THEN count + 1 ELSE count

\* the for loop moves to the next ticker after every outcome ("continue"
\* on a missing frame, the end of the body otherwise)
next_ticker_retry(n, df) == IF df = None THEN n ELSE n + 1

next_ticker(n, df) == n + 1

IngestInit ==
    /\ pc = "idle"
    /\ run = 0
    /\ idx = 1
    /\ success_count = 0
    /\ now = 0
    /\ bucket = <<>>
    /\ overwritten = FALSE
    /\ provider = [t \in TICKERS |-> "pending"]
    /\ sink = [t \in TICKERS |-> "pending"]
    /\ fetches = [t \in TICKERS |-> 0]
    /\ puts = [t \in TICKERS |-> 0]
    /\ summary = NoSummary
    /\ window = NoWindow

\* ingest_stock_prices is called: lines 127-132
StartRun(days_back) ==
    /\ pc \in {"idle", "done"}
    /\ run < MaxRuns
    /\ \E d \in Elapsed :
        /\ now' = now + d
        /\ window' = lookback(now + d, days_back)
    /\ run' = run + 1
    /\ pc' = "loop"
    /\ idx' = 1
    /\ success_count' = 0
    /\ provider' = [t \in TICKERS |-> "pending"]
    /\ sink' = [t \in TICKERS |-> "pending"]
    /\ fetches' = [t \in TICKERS |-> 0]
    /\ puts' = [t \in TICKERS |-> 0]
    /\ summary' = NoSummary
    /\ UNCHANGED <<bucket, overwritten>>
    /\ UNCHANGED ingestFrame

\* one iteration of the for loop: lines 133-143
ProcessTicker ==
    /\ pc = "loop"
    /\ idx <= NumTickers
    /\ \E p \in ProviderOutcomes, s \in SinkOutcomes, d \in Elapsed :
        LET ticker == SortedTickers[idx]
            df == fetch_ohlcv(p)
            t == now + d
            key == s3_key(ticker, strftime(t))
            up == upload_dataframe_to_s3(s)
        IN  /\ now' = t
            /\ provider' = [provider EXCEPT ![ticker] = p]
            /\ fetches' = [fetches EXCEPT ![ticker] = @ + 1]
            /\ IF df = "raise"
               THEN /\ pc' = "raised"
                    /\ UNCHANGED <<idx, success_count, bucket, overwritten, sink, puts>>
               ELSE IF df = None
               THEN /\ idx' = next_ticker(idx, df)
                    /\ UNCHANGED <<pc, success_count, bucket, overwritten, sink, puts>>
               ELSE /\ sink' = [sink EXCEPT ![ticker] = s]
                    /\ puts' = [puts EXCEPT ![ticker] = @ + 1]
                    /\ IF s = "ok"
                       THEN /\ bucket' = put_object(bucket, key, run)
                            /\ overwritten' = (overwritten \/ key \in DOMAIN bucket)
                       ELSE UNCHANGED <<bucket, overwritten>>
                    /\ IF up = "raise"
                       THEN /\ pc' = "raised"
                            /\ UNCHANGED <<idx, success_count>>
                       ELSE /\ success_count' = count_upload(success_count, up)
                            /\ idx' = next_ticker(idx, df)
                            /\ pc' = pc
    /\ UNCHANGED <<run, summary, window>>
    /\ UNCHANGED ingestFrame

\* the loop is exhausted: the final log line, 145
FinishRun ==
    /\ pc = "loop"
    /\ idx > NumTickers
    /\ summary' = <<success_count, Cardinality(TICKERS)>>
    /\ pc' = "done"
    /\ window' = NoWindow
    /\ UNCHANGED <<run, idx, success_count, now, bucket, overwritten,
                   provider, sink, fetches, puts>>
    /\ UNCHANGED ingestFrame

IngestNext ==
    \/ StartRun(DailyDaysBack)
    \/ ProcessTicker
    \/ FinishRun

\* ingest_stock_prices called with any days_back
LookbackNext ==
    \/ \E days_back \in DaysBack : StartRun(days_back)
    \/ ProcessTicker
    \/ FinishRun

(***************************************************************************)
(* api.py: the Query Service                                               *)
(***************************************************************************)
\* characters of a caller-supplied path segment: a lower-case letter, an
\* upper-case letter and the quote character
Alphabet == {"a", "A", "'"}

Strings == UNION {[1..n -> Alphabet] : n \in 1..MaxStrLen}

\* str.upper() / SQL UPPER(): letters are raised, other characters kept
upper_identity(str) == str

upper(str) == [n \in DOMAIN str |-> IF str[n] = "a" THEN "A" ELSE str[n]]

\* the cap of get_ticker_history
MaxDays == 365
\* the cap of the top-movers endpoints
MaxLimit == 20

\* values of the days / limit query parameters that are tried
DaysInputs == {-1, 0, 1, 2, 30, MaxDays, MaxDays + 1, 400}
LimitInputs == {-1, 0, 1, 2, 5, MaxLimit, MaxLimit + 1, 50}

\* how the store behaves for one request
StoreOutcomes == {"ok", "connect_fails", "execute_fails"}

\* what the transformation job can load
StoredTickers == {<<"A">>, <<"A", "A">>}
StoredSectors == {<<"A", "a">>}
Dates == {1, 2}
Figures == {1, 2}

ReturnRows ==
    [TICKER : StoredTickers, TRADE_DATE : Dates, DAILY_RETURN_PCT : Figures]
AverageRows ==
    [TICKER : StoredTickers, TRADE_DATE : Dates, VOLATILITY_30_DAY : Figures]
SectorRows ==
    [SECTOR : StoredSectors, TRADE_MONTH_START : Dates]

RowCount(st) ==
    Cardinality(st.returns) + Cardinality(st.averages) + Cardinality(st.sectors)

Min(a, b) == IF a < b THEN a ELSE b

\* ------------------------------------------------------------ SQL engine
\* A string literal '<text>' as the SQL lexer reads it: a doubled quote is
\* one quote character, a single quote ends the literal early and what
\* follows no longer parses.
RECURSIVE ParseLiteral(_)
ParseLiteral(text) ==
    IF text = <<>> THEN [ok |-> TRUE, val |-> <<>>]
    ELSE IF Head(text) = "'"
    THEN IF Len(text) >= 2 /\ text[2] = "'"
         THEN LET rest == ParseLiteral(Tail(Tail(text)))
              IN  [ok |-> rest.ok, val |-> <<"'">> \o rest.val]
         ELSE [ok |-> FALSE, val |-> <<>>]
    ELSE LET rest == ParseLiteral(Tail(text))
         IN  [ok |-> rest.ok, val |-> <<Head(text)>> \o rest.val]

\* every listing of the rows of S in ORDER BY key ASC / DESC order (rows
\* with equal keys come in any order)
OrderBy(S, key(_), desc) ==
    {q \in [1..Cardinality(S) -> S] :
        /\ \A m, n \in DOMAIN q : m # n => q[m] # q[n]
        /\ \A m, n \in DOMAIN q :
              m < n => IF desc THEN key(q[m]) >= key(q[n])
                               ELSE key(q[m]) <= key(q[n])}

\* LIMIT n
Limit(q, n) == SubSeq(q, 1, Min(n, Len(q)))

MaxOf_least(S) == CHOOSE x \in S : \A y \in S : x <= y
MaxOf(S) == CHOOSE x \in S : \A y \in S : y <= x

\* (SELECT MAX(TRADE_DATE) FROM <table>), evaluated by the store when the
\* statement runs
max_trade_date_cached(table) ==
    LET kept == IF table \subseteq ReturnRows THEN seen.returns ELSE seen.averages
    IN  IF kept # 0 THEN kept ELSE MaxOf({y.TRADE_DATE : y \in table})

max_trade_date(table) == MaxOf({y.TRADE_DATE : y \in table})

TradeDate(r) == r.TRADE_DATE
DailyReturn(r) == r.DAILY_RETURN_PCT
Volatility(r) == r.VOLATILITY_30_DAY
MonthStart(r) == r.TRADE_MONTH_START
TickerRank(r) == Len(r.TICKER)

\* r LEFT JOIN m ON r.TICKER = m.TICKER AND r.TRADE_DATE = m.TRADE_DATE
LeftJoin(r, averages) ==
    LET ms == {m \in averages : m.TICKER = r.TICKER /\ m.TRADE_DATE = r.TRADE_DATE}
    IN  IF ms = {} THEN {r @@ [VOLATILITY_30_DAY |-> NULL]}
        ELSE {r @@ [VOLATILITY_30_DAY |-> m.VOLATILITY_30_DAY] : m \in ms}

Raised(what) == [exc |-> what, rows |-> <<>>]
Fetched(rows) == [exc |-> None, rows |-> rows]

\* the result sets the store may return for a well-formed statement
Select(sql, st) ==
    CASE sql.kind = "select1" -> {<<[ONE |-> 1]>>}
      [] sql.kind = "tickers" ->
            OrderBy({[TICKER |-> r.TICKER] : r \in st.returns}, TickerRank, FALSE)
      [] sql.kind \in {"ticker", "history"} ->
            LET lit == ParseLiteral(sql.text).val
                joined == UNION {LeftJoin(r, st.averages) :
                                   r \in {x \in st.returns : x.TICKER = lit}}
            IN  {Limit(q, sql.limit) : q \in OrderBy(joined, TradeDate, TRUE)}
      [] sql.kind = "sector" ->
            LET lit == ParseLiteral(sql.text).val
                hit == {x \in st.sectors : upper(x.SECTOR) = upper(lit)}
            IN  {Limit(q, sql.limit) : q \in OrderBy(hit, MonthStart, TRUE)}
      [] sql.kind = "sectors" ->
            LET last == {x \in st.sectors :
                           x.TRADE_MONTH_START =
                             MaxOf({y.TRADE_MONTH_START : y \in st.sectors})}
            IN  OrderBy(last, MonthStart, FALSE)
      [] sql.kind \in {"gainers", "losers"} ->
            LET last == {x \in st.returns :
                           x.TRADE_DATE = max_trade_date(st.returns)}
            IN  {Limit(q, sql.limit) :
                   q \in OrderBy(last, DailyReturn, sql.kind = "gainers")}
      [] sql.kind = "volatile" ->
            LET last == {x \in st.averages :
                           x.TRADE_DATE = max_trade_date(st.averages)}
            IN  {Limit(q, sql.limit) : q \in OrderBy(last, Volatility, TRUE)}

\* the statements that splice a caller's text in, and those with a LIMIT
HasLiteral(kind) == kind \in {"ticker", "history", "sector"}
HasLimit(kind) == kind \in {"ticker", "history", "sector", "gainers", "losers", "volatile"}

\* cur.execute(sql): the store compiles the statement, then runs it.  An
\* unbalanced quote in the spliced text and a negative row count are
\* compilation errors.
Execute(sql, st) ==
    IF HasLiteral(sql.kind) /\ ~ParseLiteral(sql.text).ok
    THEN {Raised("ProgrammingError")}
    ELSE IF HasLimit(sql.kind) /\ sql.limit < 0
    THEN {Raised("ProgrammingError")}
    ELSE {Fetched(rows) : rows \in Select(sql, st)}

\* run_query: open a connection, execute, fetch, close; nothing is caught
run_query(sql, env, st) ==
    CASE env = "connect_fails" -> {Raised("DatabaseError")}
      [] env = "execute_fails" -> {Raised("OperationalError")}
      [] OTHER                 -> Execute(sql, st)

Sql(kind, text, limit) == [kind |-> kind, text |-> text, limit |-> limit]

\* the f-string of each handler: the path segment is spliced between two
\* quote characters as it came (the ticker after .upper()), the row count
\* after LIMIT
statement(op, arg, n) ==
    CASE op = "health"  -> Sql("select1", <<>>, 0)
      [] op = "tickers" -> Sql("tickers", <<>>, 0)
      [] op = "ticker"  -> Sql("ticker", upper(arg), 1)
      [] op = "history" -> Sql("history", upper(arg), n)
      [] op = "sector"  -> Sql("sector", arg, 1)
      [] op = "sectors" -> Sql("sectors", <<>>, 0)
      [] OTHER          -> Sql(op, <<>>, Min(n, MaxLimit))

\* the statements a request sends to the store: none when the handler
\* answers before its query, one otherwise
sent(r) ==
    IF r.op = "none" \/ (r.op = "history" /\ r.n > MaxDays)
    THEN {}
    ELSE {statement(r.op, r.arg, r.n)}

\* what cur.execute leaves of the store: every statement of the service is
\* one SELECT (the connector runs one statement per execute), which reads
after_execute_deletes(sql, st) ==
    IF HasLiteral(sql.kind)
    THEN [st EXCEPT !.returns = {x \in @ : x.TICKER # ParseLiteral(sql.text).val}]
    ELSE [st EXCEPT !.returns = {}]

after_execute(sql, st) == st

\* the store after request r has been answered
store_after(r, st) ==
    IF r.env = "connect_fails" \/ sent(r) = {}
    THEN st
    ELSE after_execute(CHOOSE q \in sent(r) : TRUE, st)

\* ------------------------------------------------------------ responses
Ok(body) == [status |-> 200, body |-> body]
HTTPException(status, detail) == [status |-> status, detail |-> detail]
\* an exception that leaves the handler: the framework answers 500
InternalServerError == [status |-> 500, detail |-> "Internal Server Error"]

\* response_model: the returned dict must carry the model's required fields.
\* The dict's keys are the column names of cursor.description, which the
\* store reports in upper case; the model's field names are lower case.
TickerResponse == {"ticker", "trade_date", "daily_return_pct"}
Validate(model, row) ==
    IF model \subseteq DOMAIN row THEN Ok(row) ELSE InternalServerError

\* ------------------------------------------------------------ handlers
health_check(env, st) ==
    {IF res.exc # None
     THEN HTTPException(503, <<"Snowflake unavailable: ", res.exc>>)
     ELSE Ok([status |-> "healthy"]) :
        res \in run_query(statement("health", <<>>, 0), env, st)}

get_tickers(env, st) ==
    {IF res.exc # None THEN InternalServerError
     ELSE Ok([tickers |-> res.rows, count |-> Len(res.rows)]) :
        res \in run_query(statement("tickers", <<>>, 0), env, st)}

get_ticker(ticker, env, st) ==
    LET t == upper(ticker)
    IN  {IF res.exc # None THEN InternalServerError
         ELSE IF res.rows = <<>>
         THEN HTTPException(404, <<"Ticker '", t, "' not found">>)
         ELSE Validate(TickerResponse, res.rows[1]) :
            res \in run_query(statement("ticker", ticker, 0), env, st)}

\* get_ticker_history below its day-count check
history_query(t, days, env, st) ==
    {IF res.exc # None THEN InternalServerError
     ELSE IF res.rows = <<>>
     THEN HTTPException(404, <<"Ticker '", t, "' not found">>)
     ELSE Ok([ticker |-> t, days |-> days, data |-> res.rows]) :
        res \in run_query(statement("history", t, days), env, st)}

get_ticker_history_clamps(ticker, days, env, st) ==
    history_query(upper(ticker), Min(days, MaxDays), env, st)

get_ticker_history(ticker, days, env, st) ==
    IF days > MaxDays
    THEN {HTTPException(400, "Max 365 days")}
    ELSE history_query(upper(ticker), days, env, st)

get_sector(sector, env, st) ==
    {IF res.exc # None THEN InternalServerError
     ELSE IF res.rows = <<>>
     THEN HTTPException(404, <<"Sector '", sector, "' not found">>)
     ELSE Ok(res.rows[1]) :
        res \in run_query(statement("sector", sector, 0), env, st)}

get_sectors(env, st) ==
    {IF res.exc # None THEN InternalServerError
     ELSE Ok([sectors |-> res.rows, count |-> Len(res.rows)]) :
        res \in run_query(statement("sectors", <<>>, 0), env, st)}

\* get_top_gainers / get_top_losers / get_most_volatile differ in the
\* statement only
top_rows(kind, limit, env, st) ==
    {IF res.exc # None THEN InternalServerError
     ELSE Ok([rows |-> res.rows, count |-> Len(res.rows)]) :
        res \in run_query(statement(kind, <<>>, limit), env, st)}

get_top_gainers(limit, env, st) == top_rows("gainers", limit, env, st)
get_top_losers_descending(limit, env, st) == top_rows("gainers", limit, env, st)
get_top_losers(limit, env, st) == top_rows("losers", limit, env, st)
get_most_volatile(limit, env, st) == top_rows("volatile", limit, env, st)

\* ------------------------------------------------------------ actions
NoRequest == [op |-> "none", arg |-> <<>>, n |-> 0, env |-> "none"]
NoResponse == [status |-> 0]

QueryInit ==
    /\ store = [returns |-> {}, averages |-> {}, sectors |-> {}]
    /\ req = NoRequest
    /\ resp = NoResponse

\* the transformation job (dbt run) adds a row to a mart table
LoadReturns ==
    /\ req = NoRequest
    /\ RowCount(store) < MaxRows
    /\ \E r \in ReturnRows :
        /\ \A x \in store.returns :
              ~(x.TICKER = r.TICKER /\ x.TRADE_DATE = r.TRADE_DATE)
        /\ store' = [store EXCEPT !.returns = @ \cup {r}]
    /\ UNCHANGED <<req, resp>>
    /\ UNCHANGED queryFrame

LoadAverages ==
    /\ req = NoRequest
    /\ RowCount(store) < MaxRows
    /\ \E r \in AverageRows :
        /\ \A x \in store.averages :
              ~(x.TICKER = r.TICKER /\ x.TRADE_DATE = r.TRADE_DATE)
        /\ store' = [store EXCEPT !.averages = @ \cup {r}]
    /\ UNCHANGED <<req, resp>>
    /\ UNCHANGED queryFrame

LoadSectors ==
    /\ req = NoRequest
    /\ RowCount(store) < MaxRows
    /\ \E r \in SectorRows \ store.sectors :
        store' = [store EXCEPT !.sectors = @ \cup {r}]
    /\ UNCHANGED <<req, resp>>
    /\ UNCHANGED queryFrame

\* a request: the endpoint, its path segment, its query parameter and how
\* the store behaves while it is answered
Request(op, arg, n, env) == [op |-> op, arg |-> arg, n |-> n, env |-> env]

HealthCheck ==
    /\ req = NoRequest
    /\ \E env \in StoreOutcomes :
        /\ req' = Request("health", <<>>, 0, env)
        /\ resp' \in health_check(env, store)
    /\ store' = store_after(req', store)
    /\ UNCHANGED queryFrame

GetTickers ==
    /\ req = NoRequest
    /\ \E env \in StoreOutcomes :
        /\ req' = Request("tickers", <<>>, 0, env)
        /\ resp' \in get_tickers(env, store)
    /\ store' = store_after(req', store)
    /\ UNCHANGED queryFrame

GetTicker ==
    /\ req = NoRequest
    /\ \E ticker \in Strings, env \in StoreOutcomes :
        /\ req' = Request("ticker", ticker, 0, env)
        /\ resp' \in get_ticker(ticker, env, store)
    /\ store' = store_after(req', store)
    /\ UNCHANGED queryFrame

GetTickerHistory ==
    /\ req = NoRequest
    /\ \E ticker \in Strings, days \in DaysInputs, env \in StoreOutcomes :
        /\ req' = Request("history", ticker, days, env)
        /\ resp' \in get_ticker_history(ticker, days, env, store)
    /\ store' = store_after(req', store)
    /\ UNCHANGED queryFrame

GetSector ==
    /\ req = NoRequest
    /\ \E sector \in Strings, env \in StoreOutcomes :
        /\ req' = Request("sector", sector, 0, env)
        /\ resp' \in get_sector(sector, env, store)
    /\ store' = store_after(req', store)
    /\ UNCHANGED queryFrame

GetSectors ==
    /\ req = NoRequest
    /\ \E env \in StoreOutcomes :
        /\ req' = Request("sectors", <<>>, 0, env)
        /\ resp' \in get_sectors(env, store)
    /\ store' = store_after(req', store)
    /\ UNCHANGED queryFrame

GetTopGainers ==
    /\ req = NoRequest
    /\ \E limit \in LimitInputs, env \in StoreOutcomes :
        /\ req' = Request("gainers", <<>>, limit, env)
        /\ resp' \in get_top_gainers(limit, env, store)
    /\ store' = store_after(req', store)
    /\ UNCHANGED queryFrame

GetTopLosers ==
    /\ req = NoRequest
    /\ \E limit \in LimitInputs, env \in StoreOutcomes :
        /\ req' = Request("losers", <<>>, limit, env)
        /\ resp' \in get_top_losers(limit, env, store)
    /\ store' = store_after(req', store)
    /\ UNCHANGED queryFrame

GetMostVolatile ==
    /\ req = NoRequest
    /\ \E limit \in LimitInputs, env \in StoreOutcomes :
        /\ req' = Request("volatile", <<>>, limit, env)
        /\ resp' \in get_most_volatile(limit, env, store)
    /\ store' = store_after(req', store)
    /\ UNCHANGED queryFrame

\* the caller has the response; the service holds nothing of the request
Respond ==
    /\ req # NoRequest
    /\ req' = NoRequest
    /\ resp' = NoResponse
    /\ UNCHANGED store
    /\ UNCHANGED queryFrame

\* the caller reads the response, as Respond, and keeps in mind the trade
\* date a top-movers answer carried
MartOf(op) == IF op = "volatile" THEN "averages" ELSE "returns"

CallerInit == seen = [returns |-> 0, averages |-> 0]

Observe ==
    /\ req # NoRequest
    /\ seen' = IF /\ req.op \in {"gainers", "losers", "volatile"}
                  /\ resp.status = 200
                  /\ resp.body.rows # <<>>
               THEN [seen EXCEPT ![MartOf(req.op)] = resp.body.rows[1].TRADE_DATE]
               ELSE seen
    /\ req' = NoRequest
    /\ resp' = NoResponse
    /\ UNCHANGED store
    /\ UNCHANGED <<ingestVars, connVars, fundVars, dagVars>>

\* the top-movers endpoints, asked again and again while the marts are loaded
MoversNext ==
    \/ LoadReturns
    \/ LoadAverages
    \/ GetTopGainers
    \/ GetTopLosers
    \/ GetMostVolatile
    \/ Observe

QueryNext ==
    \/ LoadReturns
    \/ LoadAverages
    \/ LoadSectors
    \/ HealthCheck
    \/ GetTickers
    \/ GetTicker
    \/ GetTickerHistory
    \/ GetSector
    \/ GetSectors
    \/ GetTopGainers
    \/ GetTopLosers
    \/ GetMostVolatile
    \/ Respond

(***************************************************************************)
(* phase1_ingestion.py: fetch_fundamentals, ingest_fundamentals            *)
(***************************************************************************)
S3_FUNDAMENTALS_PREFIX == "fundamentals/"

\* what yf.Ticker(ticker).info can do for one ticker
InfoOutcomes == {"info", "exception"}

\* fetch_fundamentals: the provider call inside try/except.  Returns the
\* row ("dict") or None; an exception of the provider is caught.
fetch_fundamentals_keeps_failed(o) == "dict"

fetch_fundamentals(o) ==
    CASE o = "exception" -> None
      [] OTHER           -> "dict"

\* f"{S3_FUNDAMENTALS_PREFIX}fundamentals_{timestamp}.csv"
fundamentals_key(timestamp) ==
    [prefix |-> S3_FUNDAMENTALS_PREFIX, timestamp |-> timestamp]

FundInit ==
    /\ fpc = "idle"
    /\ frun = 0
    /\ fidx = 1
    /\ frows = <<>>
    /\ finfo = [t \in TICKERS |-> "pending"]
    /\ fsink = "pending"
    /\ fputs = 0
    /\ fbucket = <<>>
    /\ flog = "none"

\* ingest_fundamentals is called: rows = []
FundStart ==
    /\ fpc \in {"idle", "done"}
    /\ frun < MaxRuns
    /\ frun' = frun + 1
    /\ fpc' = "loop"
    /\ fidx' = 1
    /\ frows' = <<>>
    /\ finfo' = [t \in TICKERS |-> "pending"]
    /\ fsink' = "pending"
    /\ fputs' = 0
    /\ flog' = "none"
    /\ UNCHANGED <<fbucket, now>>
    /\ UNCHANGED fundFrame

\* one iteration of the for loop: fetch, and append the row if there is one
FundFetch ==
    /\ fpc = "loop"
    /\ fidx <= NumTickers
    /\ \E o \in InfoOutcomes :
        LET ticker == SortedTickers[fidx]
            data == fetch_fundamentals(o)
        IN  /\ finfo' = [finfo EXCEPT ![ticker] = o]
            /\ frows' = IF data # None THEN Append(frows, ticker) ELSE frows
    /\ fidx' = fidx + 1
    /\ UNCHANGED <<fpc, frun, fsink, fputs, fbucket, flog, now>>
    /\ UNCHANGED fundFrame

\* after the loop: return if rows is empty, else build the frame, upload it
\* as one object and log
FundUpload ==
    /\ fpc = "loop"
    /\ fidx > NumTickers
    /\ IF frows = <<>>
       THEN /\ flog' = "No fundamentals data fetched"
            /\ fpc' = "done"
            /\ UNCHANGED <<fsink, fputs, fbucket, now>>
       ELSE \E s \in SinkOutcomes, d \in Elapsed :
            LET t == now + d
                key == fundamentals_key(strftime(t))
                up == upload_dataframe_to_s3(s)
            IN  /\ now' = t
                /\ fsink' = s
                /\ fputs' = fputs + 1
                /\ fbucket' = IF s = "ok"
                              THEN put_object(fbucket, key, [run |-> frun, rows |-> frows])
                              ELSE fbucket
                /\ IF up = "raise"
                   THEN /\ fpc' = "raised"
                        /\ UNCHANGED flog
                   ELSE /\ fpc' = "done"
                        /\ flog' = "Fundamentals uploaded"
    /\ UNCHANGED <<frun, fidx, frows, finfo>>
    /\ UNCHANGED fundFrame

FundNext ==
    \/ FundStart
    \/ FundFetch
    \/ FundUpload

(***************************************************************************)
(* market_pulse_dag.py: the tasks, their dependencies and trigger rules,   *)
(* as the Airflow scheduler runs them                                      *)
(***************************************************************************)
MaxDagRuns == 2

Tasks == {"verify_raw_data", "dbt_run", "dbt_test",
          "pipeline_success", "pipeline_failure_alert"}

\* verify_task >> dbt_run_task >> dbt_test_task >> success_task
\* dbt_test_task >> failure_task
Upstream(t) ==
    CASE t = "verify_raw_data"        -> {}
      [] t = "dbt_run"                -> {"verify_raw_data"}
      [] t = "dbt_test"               -> {"dbt_run"}
      [] t = "pipeline_success"       -> {"dbt_test"}
      [] t = "pipeline_failure_alert" -> {"dbt_test"}

\* trigger_rule of a task: all_success unless given
TriggerRule(t) ==
    IF t = "pipeline_failure_alert" THEN "one_failed" ELSE "all_success"

\* default_args["retries"]
retries == 1

Finished == {"success", "failed", "upstream_failed", "skipped"}

\* what the scheduler does with a task that has not run, from the states of
\* its upstream tasks: "run" it, "wait", or set it to a state without
\* running it
one_failed_failed_only(ups) ==
    IF "failed" \in ups THEN "run"
    ELSE IF ups \subseteq Finished THEN "skipped"
    ELSE "wait"

one_failed(ups) ==
    IF "failed" \in ups \/ "upstream_failed" \in ups THEN "run"
    ELSE IF ups \subseteq Finished THEN "skipped"
    ELSE "wait"

all_success(ups) ==
    IF "failed" \in ups \/ "upstream_failed" \in ups THEN "upstream_failed"
    ELSE IF "skipped" \in ups THEN "skipped"
    ELSE IF ups \subseteq {"success"} THEN "run"
    ELSE "wait"

Decision(t) ==
    LET ups == {ti[u] : u \in Upstream(t)}
    IN  IF TriggerRule(t) = "one_failed" THEN one_failed(ups) ELSE all_success(ups)

DagInit ==
    /\ ti = [t \in Tasks |-> "none"]
    /\ tries = [t \in Tasks |-> 0]
    /\ dag_run = 1

\* the scheduler starts an attempt of a task whose trigger rule is met
StartTask(t) ==
    /\ ti[t] \in {"none", "up_for_retry"}
    /\ Decision(t) = "run"
    /\ ti' = [ti EXCEPT ![t] = "running"]
    /\ tries' = [tries EXCEPT ![t] = @ + 1]
    /\ UNCHANGED dag_run
    /\ UNCHANGED dagFrame

\* the attempt ends: the command succeeded, or it failed and the task is
\* retried while it has retries left
EndTask(t) ==
    /\ ti[t] = "running"
    /\ \E ok \in BOOLEAN :
          ti' = [ti EXCEPT ![t] = IF ok THEN "success"
                                  ELSE IF tries[t] <= retries THEN "up_for_retry"
                                  ELSE "failed"]
    /\ UNCHANGED <<tries, dag_run>>
    /\ UNCHANGED dagFrame

\* the scheduler settles a task that will not run
SettleTask(t) ==
    /\ ti[t] = "none"
    /\ Decision(t) \in {"upstream_failed", "skipped"}
    /\ ti' = [ti EXCEPT ![t] = Decision(t)]
    /\ UNCHANGED <<tries, dag_run>>
    /\ UNCHANGED dagFrame

\* every task of the run is settled; the next scheduled run begins
NextDagRun ==
    /\ \A t \in Tasks : ti[t] \in Finished
    /\ dag_run < MaxDagRuns
    /\ dag_run' = dag_run + 1
    /\ ti' = [t \in Tasks |-> "none"]
    /\ tries' = [t \in Tasks |-> 0]
    /\ UNCHANGED dagFrame

DagNext ==
    \/ \E t \in Tasks : StartTask(t)
    \/ \E t \in Tasks : EndTask(t)
    \/ \E t \in Tasks : SettleTask(t)
    \/ NextDagRun

(***************************************************************************)
(* run_query under concurrent requests (api.py get_conn, run_query)        *)
(***************************************************************************)
MaxInflight == 2
MaxRequests == 3

Workers == 1..MaxInflight

Idle == [pc |-> "idle", rid |-> 0, conn |-> 0, exit |-> "none"]

\* snowflake.connector.connect(...): a connection object of its own
get_conn_cached(cs) ==
    IF \E c \in DOMAIN cs : cs[c].open
    THEN CHOOSE c \in DOMAIN cs : cs[c].open
    ELSE Len(cs) + 1

get_conn(cs) == Len(cs) + 1

\* the finally clause: conn.close() whether the try block returned or raised
finally_close(exit) == TRUE

ConnInit ==
    /\ conns = <<>>
    /\ workers = [w \in Workers |-> Idle]
    /\ arrived = 0

\* a request reaches a handler that calls run_query
Accept(w) ==
    /\ workers[w].pc = "idle"
    /\ arrived < MaxRequests
    /\ arrived' = arrived + 1
    /\ workers' = [workers EXCEPT ![w] = [Idle EXCEPT !.pc = "get_conn", !.rid = arrived + 1]]
    /\ UNCHANGED conns
    /\ UNCHANGED connFrame

\* conn = get_conn(): connects, or raises and leaves run_query with no
\* connection
GetConn(w) ==
    /\ workers[w].pc = "get_conn"
    /\ \/ LET c == get_conn(conns)
          IN  /\ conns' = IF c \in DOMAIN conns
                          THEN [conns EXCEPT ![c].users = @ \cup {workers[w].rid}]
                          ELSE Append(conns, [users |-> {workers[w].rid},
                                              queries |-> 0, open |-> TRUE,
                                              exit |-> "none"])
              /\ workers' = [workers EXCEPT ![w].pc = "execute", ![w].conn = c]
       \/ /\ workers' = [workers EXCEPT ![w].pc = "raise"]
          /\ UNCHANGED conns
    /\ UNCHANGED arrived
    /\ UNCHANGED connFrame

\* the try block: cur.execute(sql) and fetchall() on this request's
\* connection; it returns the rows or raises
ExecuteQuery(w) ==
    /\ workers[w].pc = "execute"
    /\ \E exit \in {"return", "raise"} :
        /\ conns' = [conns EXCEPT ![workers[w].conn].queries = @ + 1,
                                  ![workers[w].conn].exit = exit]
        /\ workers' = [workers EXCEPT ![w].pc = "finally", ![w].exit = exit]
    /\ UNCHANGED arrived
    /\ UNCHANGED connFrame

\* the finally clause, then the return or the re-raise
Finally(w) ==
    /\ workers[w].pc = "finally"
    /\ conns' = IF finally_close(workers[w].exit)
                THEN [conns EXCEPT ![workers[w].conn].open = FALSE]
                ELSE conns
    /\ workers' = [workers EXCEPT ![w].pc = workers[w].exit]
    /\ UNCHANGED arrived
    /\ UNCHANGED connFrame

\* the response (rows, or the error answer) leaves the service
Leave(w) ==
    /\ workers[w].pc \in {"return", "raise"}
    /\ workers' = [workers EXCEPT ![w] = Idle]
    /\ UNCHANGED <<conns, arrived>>
    /\ UNCHANGED connFrame

ConnNext ==
    \E w \in Workers :
        \/ Accept(w)
        \/ GetConn(w)
        \/ ExecuteQuery(w)
        \/ Finally(w)
        \/ Leave(w)

Init == IngestInit /\ QueryInit /\ ConnInit /\ CallerInit /\ FundInit /\ DagInit

IngestSpec == Init /\ [][IngestNext]_vars

QuerySpec == Init /\ [][QueryNext]_vars

\* the routine is one sequential thread: a step that can be taken is taken
IngestFairSpec == IngestSpec /\ WF_vars(IngestNext)

ConnSpec == Init /\ [][ConnNext]_vars

MoversSpec == Init /\ [][MoversNext]_vars

LookbackSpec == Init /\ [][LookbackNext]_vars

FundSpec == Init /\ [][FundNext]_vars

\* the scheduler keeps working on a DAG run until every task is settled
DagSpec == Init /\ [][DagNext]_vars /\ WF_vars(DagNext)

(***************************************************************************)
(* Properties of the ingestion routine                                     *)
(***************************************************************************)
\* ticker t has an object in the bucket written by the current run
Staged(t) == \E k \in DOMAIN bucket : k.ticker = t /\ bucket[k] = run

\* the tickers the loop has already been through in this run
Visited == {SortedTickers[n] : n \in 1..(IF idx > NumTickers THEN NumTickers ELSE idx - 1)}

\* C1: a failure for one ticker (provider exception, empty result, failed
\* upload) never aborts the run: the loop goes on through every other
\* ticker, each is fetched, and each is staged whenever its own fetch
\* returned rows and its own upload succeeded.
C1_FailureIsolation ==
    /\ pc # "raised"
    /\ pc = "done" => Visited = TICKERS
    /\ pc \in {"loop", "done"} =>
          \A y \in Visited :
              /\ fetches[y] = 1
              /\ (provider[y] = "rows" /\ sink[y] = "ok") => Staged(y)

\* a finished run in which the first ticker's provider call raised and the
\* second ticker, fetched after it, is staged
C1_Witness ==
    /\ pc = "done"
    /\ provider[SortedTickers[1]] = "exception"
    /\ provider[SortedTickers[2]] = "rows"
    /\ Staged(SortedTickers[2])

\* C2: the final summary reports as successes exactly the number of tickers
\* staged in this run, and as total the size of the universe.
C2_SummaryCounts ==
    pc = "done" =>
        summary = <<Cardinality({t \in TICKERS : Staged(t)}), NumTickers>>

\* universe of two, AAPL staged, the other ticker without data: 1 of 2
C2_Witness ==
    /\ pc = "done"
    /\ NumTickers = 2
    /\ Staged("AAPL")
    /\ \E z \in TICKERS \ {"AAPL"} : provider[z] = "empty"
    /\ Cardinality({k \in DOMAIN bucket : bucket[k] = run}) = 1
    /\ summary = <<1, 2>>

\* C3: no two staged objects receive the same key: no put replaces an
\* object staged earlier.
C3_KeysUnique == ~overwritten

\* C4: in one run every ticker is fetched exactly once and written at most
\* once; a failed or empty fetch, and a failed upload, are not retried, and
\* a ticker whose fetch failed or was empty has no staged object.
C4_OncePerTicker ==
    \A t \in TICKERS :
        /\ fetches[t] <= 1
        /\ puts[t] <= 1
        /\ pc = "done" => fetches[t] = 1
        /\ provider[t] \in {"empty", "exception"} => (puts[t] = 0 /\ ~Staged(t))
        /\ sink[t] = "exception" => (puts[t] = 1 /\ ~Staged(t))

\* a finished run with one failed fetch and one failed upload
C4_Witness ==
    /\ pc = "done"
    /\ \E t \in TICKERS : provider[t] = "exception" /\ fetches[t] = 1
    /\ \E t \in TICKERS : sink[t] = "exception" /\ puts[t] = 1

\* C5: a run always ends with its final tally and never raises, whatever
\* the fetch and upload outcomes of the tickers.
C5_Terminates ==
    /\ [](pc # "raised")
    /\ (pc = "loop") ~> (pc = "done" /\ summary # NoSummary)

\* a finished run in which every ticker failed: tally 0 of len(TICKERS)
C5_Witness ==
    /\ pc = "done"
    /\ \A t \in TICKERS : provider[t] # "rows" \/ sink[t] = "exception"
    /\ \E t \in TICKERS : provider[t] = "exception"
    /\ \E t \in TICKERS : sink[t] = "exception"
    /\ summary = <<0, NumTickers>>

(***************************************************************************)
(* Properties of the Query Service                                         *)
(***************************************************************************)
\* two spellings of one identifier: the same letters, in any case
SameSpelling(a, b) ==
    /\ Len(a) = Len(b)
    /\ \A n \in 1..Len(a) :
          (IF a[n] = "A" THEN "a" ELSE a[n]) = (IF b[n] = "A" THEN "a" ELSE b[n])

\* the returns table holds a row of the ticker spelled arg
HasTickerRows(arg) == \E r \in store.returns : SameSpelling(r.TICKER, arg)
\* the sector table holds a row of the sector spelled arg
HasSectorRows(arg) == \E r \in store.sectors : SameSpelling(r.SECTOR, arg)

\* C6 as stated: a day-count above 365 is answered as day-count 365 is
\* (here for a reachable store and a ticker that has rows).
C6_ClampedTo365 ==
    (/\ req.op = "history"
     /\ req.n > MaxDays
     /\ req.env = "ok"
     /\ \E r \in store.returns : r.TICKER = req.arg) =>
        resp \in get_ticker_history(req.arg, MaxDays, req.env, store)

\* C6 as amended: a day-count above 365 is rejected with 400 "Max 365
\* days", whatever the ticker, the store contents and the store's state.
C6_RejectedAbove365 ==
    (req.op = "history" /\ req.n > MaxDays) =>
        resp = HTTPException(400, "Max 365 days")

\* a history request above the cap for a ticker that has rows, the store up
C6_Witness ==
    /\ req.op = "history"
    /\ req.n > MaxDays
    /\ req.env = "ok"
    /\ \E r \in store.returns : r.TICKER = req.arg
    /\ resp.status = 400

\* C7: for every integer limit the top-movers endpoints answer 200 with at
\* most 20 rows and at most limit rows; no error depends on the limit.
C7_LimitCap ==
    (req.op \in {"gainers", "losers", "volatile"} /\ req.env = "ok") =>
        /\ resp.status = 200
        /\ Len(resp.body.rows) <= MaxLimit
        /\ Len(resp.body.rows) <= req.n

\* C8: get ticker and get ticker history answer every spelling of a ticker
\* as they answer any other spelling of it, and get sector finds the same
\* row (or none) for every spelling of a sector name.
C8_CaseInsensitive ==
    /\ req.op = "ticker" =>
          \A s \in Strings : SameSpelling(s, req.arg) =>
              resp \in get_ticker(s, req.env, store)
    /\ req.op = "history" =>
          \A s \in Strings : SameSpelling(s, req.arg) =>
              resp \in get_ticker_history(s, req.n, req.env, store)
    /\ req.op = "sector" =>
          \A s \in Strings : SameSpelling(s, req.arg) =>
              \E other \in get_sector(s, req.env, store) :
                  /\ other.status = resp.status
                  /\ resp.status = 200 => other.body = resp.body

\* a stored ticker and a stored sector asked for in lower case, and found
C8_Witness ==
    /\ req.env = "ok"
    /\ req.arg # upper(req.arg)
    /\ \/ req.op = "history" /\ req.n = 1 /\ resp.status = 200
             /\ \E r \in store.returns : r.TICKER = upper(req.arg)
       \/ req.op = "sector" /\ resp.status = 200
             /\ resp.body.SECTOR # req.arg

\* C9: with no row matching the requested identifier, get ticker, get
\* ticker history and get sector answer 404 naming the identifier.
C9_NotFound404 ==
    /\ (req.op \in {"ticker", "history"} /\ req.env = "ok" /\ ~HasTickerRows(req.arg)) =>
          (resp.status = 404 /\ resp.detail = <<"Ticker '", upper(req.arg), "' not found">>)
    /\ (req.op = "sector" /\ req.env = "ok" /\ ~HasSectorRows(req.arg)) =>
          (resp.status = 404 /\ resp.detail = <<"Sector '", req.arg, "' not found">>)

\* C10: a request during which the store cannot be reached or queried is
\* answered 503 with the underlying message, on every endpoint.
C10_Unavailable503 ==
    (/\ req.op # "none"
     /\ req.env # "ok"
     /\ ~(req.op = "history" /\ req.n > MaxDays)) =>
        (resp.status = 503 /\ resp.detail[1] = "Snowflake unavailable: ")


\* C11: whatever ticker or sector string the caller supplies, quote
\* characters included, the statement sent to the store keeps its structure:
\* the text between the two quote characters of the filter predicate reads
\* as one string literal, and the value of that literal is the caller's
\* string (the ticker in upper case).
C11_InputIsLiteral ==
    \A q \in sent(req) :
        HasLiteral(q.kind) =>
            /\ ParseLiteral(q.text).ok
            /\ ParseLiteral(q.text).val =
                  (IF req.op = "sector" THEN req.arg ELSE upper(req.arg))


(***************************************************************************)
(* Properties of run_query under concurrent requests                       *)
(***************************************************************************)
InFlight == {w \in Workers : workers[w].pc # "idle"}

\* the workers that hold connection c between get_conn and the finally clause
Holders(c) ==
    {w \in Workers : /\ workers[w].conn = c
                     /\ workers[w].pc \in {"execute", "finally"}}

\* C12: every request that opens a connection has one of its own (no
\* connection serves two requests, whatever the interleaving), runs one
\* query on it and has closed it when it returns or raises; with no request
\* in flight, no connection the service opened is open.
C12_OwnConnectionClosed ==
    /\ \A c \in DOMAIN conns :
        /\ Cardinality(conns[c].users) = 1
        /\ conns[c].queries <= 1
        /\ conns[c].open => Cardinality(Holders(c)) = 1
        /\ ~conns[c].open => conns[c].queries = 1
    /\ \A w \in Workers :
          (workers[w].pc \in {"return", "raise"} /\ workers[w].conn # 0)
              => ~conns[workers[w].conn].open
    /\ InFlight = {} => \A c \in DOMAIN conns : ~conns[c].open

\* no request is in flight any more; one request's query returned rows,
\* another's raised, and both connections are closed
C12_Witness ==
    /\ InFlight = {}
    /\ \E c, d \in DOMAIN conns :
        /\ conns[c].exit = "return" /\ ~conns[c].open
        /\ conns[d].exit = "raise" /\ ~conns[d].open


(***************************************************************************)
(* Properties of the Query Service across requests                         *)
(***************************************************************************)
Mart(st, op) == IF op = "volatile" THEN st.averages ELSE st.returns

\* C13: the service keeps nothing between requests: whatever requests were
\* answered before and whatever was loaded since, a top-movers answer is one
\* that the handler gives for the request's parameters on the store as it is
\* now, and its rows carry the greatest trade date now in the mart, never an
\* older one that an earlier answer carried.
C13_AnswerFromStoreNow ==
    (req.op \in {"gainers", "losers", "volatile"} /\ resp.status = 200) =>
        /\ resp \in top_rows(req.op, req.n, req.env, store)
        /\ \A n \in DOMAIN resp.body.rows :
              /\ \A y \in Mart(store, req.op) :
                    y.TRADE_DATE <= resp.body.rows[n].TRADE_DATE
              /\ seen[MartOf(req.op)] <= resp.body.rows[n].TRADE_DATE

\* an earlier answer carried date 1; rows of date 2 were loaded since, and
\* the answer to the present request carries date 2
C13_Witness ==
    /\ req.op = "gainers"
    /\ resp.status = 200
    /\ seen.returns = 1
    /\ resp.body.rows # <<>>
    /\ resp.body.rows[1].TRADE_DATE = 2


Range(q) == {q[n] : n \in DOMAIN q}

\* the rows of a mart table that carry its greatest trade date
LastDay(table) == {x \in table : \A y \in table : y.TRADE_DATE <= x.TRADE_DATE}

\* q lists its rows by key, descending or ascending
Sorted(q, key(_), desc) ==
    \A m, n \in DOMAIN q :
        m < n => IF desc THEN key(q[m]) >= key(q[n]) ELSE key(q[m]) <= key(q[n])

\* C15: on one store and one limit, top-gainers and top-losers both take
\* their rows from the most-recent-day rows of the returns mart, the first by
\* daily return descending and the second ascending, and no row is in both
\* answers unless those rows have fewer than 2 x limit distinct daily
\* returns.
C15_OppositeEnds ==
    (req.op \in {"gainers", "losers"} /\ resp.status = 200) =>
        LET last == LastDay(store.returns)
            mine == resp.body.rows
            others == IF req.op = "gainers"
                      THEN get_top_losers(req.n, req.env, store)
                      ELSE get_top_gainers(req.n, req.env, store)
        IN  /\ Range(mine) \subseteq last
            /\ Sorted(mine, DailyReturn, req.op = "gainers")
            /\ \A o \in others :
                /\ o.status = 200
                /\ Range(o.body.rows) \subseteq last
                /\ Sorted(o.body.rows, DailyReturn, req.op = "losers")
                /\ Cardinality({DailyReturn(x) : x \in last}) >= 2 * req.n
                      => Range(mine) \cap Range(o.body.rows) = {}

\* top-gainers answered with limit 1 over a last day of two rows with two
\* different daily returns
C15_Witness ==
    /\ req.op = "gainers"
    /\ req.n = 1
    /\ resp.status = 200
    /\ Len(resp.body.rows) = 1
    /\ Cardinality({DailyReturn(x) : x \in LastDay(store.returns)}) = 2


\* the stored rows of the ticker spelled arg
RowsOf(arg) == {r \in store.returns : SameSpelling(r.TICKER, arg)}

\* data holds the n latest rows of the ticker spelled arg, latest first
LatestRows(data, arg, n) ==
    /\ Len(data) = Min(n, Cardinality(RowsOf(arg)))
    /\ \A k \in DOMAIN data :
          \E r \in RowsOf(arg) :
              /\ data[k].TRADE_DATE = r.TRADE_DATE
              /\ data[k].DAILY_RETURN_PCT = r.DAILY_RETURN_PCT
    /\ \A k, m \in DOMAIN data : k < m => data[k].TRADE_DATE > data[m].TRADE_DATE
    /\ \A r \in RowsOf(arg) :
          (\A k \in DOMAIN data : data[k].TRADE_DATE # r.TRADE_DATE)
              => \A k \in DOMAIN data : r.TRADE_DATE < data[k].TRADE_DATE

\* C16: for a ticker that has stored rows, get ticker history with a
\* day-count N in 1..365 answers with min(N, stored rows of the ticker) rows,
\* the ones with the latest trade dates, latest first; get ticker answers
\* with the one row of the ticker that has the latest trade date.
C16_LatestRowsReturned ==
    (req.env = "ok" /\ HasTickerRows(req.arg)) =>
        /\ (req.op = "history" /\ 1 <= req.n /\ req.n <= MaxDays) =>
              /\ resp.status = 200
              /\ LatestRows(resp.body.data, req.arg, req.n)
        /\ req.op = "ticker" =>
              /\ resp.status = 200
              /\ LatestRows(<<resp.body>>, req.arg, 1)


\* row x comes strictly before row y in the order of endpoint op
RanksBefore(op, x, y) ==
    CASE op = "gainers"  -> DailyReturn(x) > DailyReturn(y)
      [] op = "losers"   -> DailyReturn(x) < DailyReturn(y)
      [] op = "volatile" -> Volatility(x) > Volatility(y)

\* C17: every row that top-gainers, top-losers or most-volatile returns is a
\* row of the queried mart with the greatest trade date the mart holds at
\* the request; the rows come in the endpoint's order (daily return
\* descending, daily return ascending, 30-day volatility descending), no
\* row twice, and no row of that date that was left out ranks before a
\* returned one.
C17_TopOfLastDay ==
    (req.op \in {"gainers", "losers", "volatile"} /\ resp.status = 200) =>
        LET rows == resp.body.rows
            last == LastDay(Mart(store, req.op))
        IN  /\ Range(rows) \subseteq last
            /\ Len(rows) = Cardinality(Range(rows))
            /\ \A m, n \in DOMAIN rows :
                  m < n => ~RanksBefore(req.op, rows[n], rows[m])
            /\ \A x \in last \ Range(rows) :
                  \A n \in DOMAIN rows : ~RanksBefore(req.op, x, rows[n])

\* most-volatile answered with one row while the mart holds another row of
\* the same date and lower volatility, which was left out
C17_Witness ==
    /\ req.op = "volatile"
    /\ resp.status = 200
    /\ Len(resp.body.rows) = 1
    /\ \E x \in store.averages :
          /\ x.TRADE_DATE = resp.body.rows[1].TRADE_DATE
          /\ Volatility(x) < Volatility(resp.body.rows[1])


\* C19: the lookback window is a non-negative count of days: a negative
\* days_back is rejected before the provider is called, so whenever a fetch
\* has been issued in a run, its window has start_date <= end_date.
C19_WindowNotInverted ==
    (pc = "loop" /\ \E t \in TICKERS : fetches[t] > 0) =>
        window.start_date <= window.end_date

(***************************************************************************)
(* Properties of ingest_fundamentals                                       *)
(***************************************************************************)
\* the objects the current run has staged
StagedByRun == {k \in DOMAIN fbucket : fbucket[k].run = frun}

\* the tickers whose snapshot fetch succeeded in the current run
Fetched_ok == {t \in TICKERS : finfo[t] = "info"}

\* C18: a run of ingest_fundamentals writes to the sink at most once; what
\* it stages is one object that holds one row for each ticker whose fetch
\* succeeded and no other row; when no fetch succeeded it writes nothing,
\* and nothing of the run is staged.
C18_OneObjectOneRowPerTicker ==
    /\ fputs <= 1
    /\ Cardinality(StagedByRun) <= 1
    /\ \A k \in StagedByRun :
        /\ Range(fbucket[k].rows) = Fetched_ok
        /\ Len(fbucket[k].rows) = Cardinality(Fetched_ok)
    /\ fpc = "done" =>
        /\ Fetched_ok = {} => (fputs = 0 /\ StagedByRun = {})
        /\ (Fetched_ok # {} /\ fsink = "ok") => Cardinality(StagedByRun) = 1
        /\ Fetched_ok # {} => fputs = 1

\* a finished run in which the first ticker's fetch raised, the second
\* succeeded, and the object staged holds the second ticker's row only
C18_Witness ==
    /\ fpc = "done"
    /\ finfo[SortedTickers[1]] = "exception"
    /\ finfo[SortedTickers[2]] = "info"
    /\ \E k \in StagedByRun : fbucket[k].rows = <<SortedTickers[2]>>


\* C21: for a ticker that has stored rows, get ticker history with any
\* integer day-count not above 365 (0 and negative counts included) answers
\* neither not-found nor a server error; it answers not-found only when
\* the store holds no row of the ticker.
C21_HistoryFoundForStoredTicker ==
    (req.op = "history" /\ req.env = "ok" /\ req.n <= MaxDays) =>
        /\ HasTickerRows(req.arg) => resp.status \notin {404, 500}
        /\ resp.status = 404 => ~HasTickerRows(req.arg)

\* C22: ingest_fundamentals logs "Fundamentals uploaded" only in a run
\* whose sink write succeeded; when upload_dataframe_to_s3 returned False
\* the run reports no success.
C22_UploadedOnlyOnSuccess ==
    flog = "Fundamentals uploaded" =>
        /\ fsink = "ok"
        /\ StagedByRun # {}

(***************************************************************************)
(* Properties of the DAG                                                   *)
(***************************************************************************)
Steps == {"verify_raw_data", "dbt_run", "dbt_test"}

\* the task has been executed in the current DAG run
Ran(t) == tries[t] > 0

\* a step has failed with no retry left
StepFailed == \E t \in Steps : ti[t] = "failed"

StepsSucceeded == \A t \in Steps : ti[t] = "success"

RunComplete == \A t \in Tasks : ti[t] \in Finished

\* C20: in every DAG run, pipeline_failure_alert runs exactly when one of
\* verify_raw_data, dbt_run, dbt_test has failed after its retry (also when
\* it is an early step), pipeline_success runs exactly when all three have
\* succeeded, each step running only after the one before it succeeded, and
\* the two never both run.
C20_AlertIffStepFailed ==
    /\ [](/\ Ran("pipeline_failure_alert") => StepFailed
          /\ Ran("pipeline_success") => StepsSucceeded
          /\ ~(Ran("pipeline_failure_alert") /\ Ran("pipeline_success"))
          /\ Ran("dbt_run") => ti["verify_raw_data"] = "success"
          /\ Ran("dbt_test") => ti["dbt_run"] = "success"
          /\ RunComplete => (Ran("pipeline_failure_alert") <=> StepFailed)
          /\ RunComplete => (Ran("pipeline_success") <=> StepsSucceeded))
    /\ \A n \in 1..MaxDagRuns :
          /\ (dag_run = n /\ StepFailed)
                ~> (dag_run = n /\ Ran("pipeline_failure_alert"))
          /\ (dag_run = n /\ StepsSucceeded)
                ~> (dag_run = n /\ Ran("pipeline_success"))

\* verify_raw_data failed on its second attempt, no later step ran, and the
\* alert has run
C20_Witness ==
    /\ ti["verify_raw_data"] = "failed"
    /\ tries["verify_raw_data"] = 2
    /\ ~Ran("dbt_run")
    /\ ~Ran("dbt_test")
    /\ ti["pipeline_failure_alert"] = "success"
    /\ RunComplete

=============================================================================
